---- MODULE Spec2Model ----
(***************************************************************************)
(* Model of the SOCKS5 session reconstruction engine                       *)
(* (pkg/interceptor/enhanced_socks5_monitor.go): the per-connection packet *)
(* buffer, the stage classification by leading bytes, the stage handlers,  *)
(* the globally rate-limited audit report and the stale-session reaper.    *)
(*                                                                         *)
(* Byte strings are sequences of 0..255.  Go indexes from 0, TLA+ from 1:  *)
(* At and Slice do the shift, so handler bodies read like the source.      *)
(* Time is counted in ticks of 1/TicksPerMinute minute from the start of   *)
(* the run; the zero time.Time is the distinguished value ZeroTime.        *)
(*                                                                         *)
(* The capture side, the classifier container_traffic_monitor of           *)
(* socks5_monitor_container.c, is modelled on the bytes of a frame: the    *)
(* header walk, the port filter, the credential extractor and the event it *)
(* submits and caches.                                                     *)
(***************************************************************************)
EXTENDS Integers, Sequences, FiniteSets, TLC

VARIABLES
    authSessions,    \* m.authSessions: sessionKey -> SOCKS5Session (present keys only)
    packetBuffer,    \* m.packetBuffer: sessionKey -> []byte (present keys only)
    lastAuthReport,  \* m.lastAuthReport
    now,             \* the wall clock read by time.Now()
    reports,         \* the audit reports printed so far, oldest first
    delivered,       \* history: bytes accumulated per key since its buffer was created
    created,         \* history: time at which the Session of a key was created
    last,            \* history: the operation that produced this state
    packets,         \* number of AnalyzePacket calls so far
    threads,         \* position and locals of each unsynchronised caller
    socks5_events,   \* events handed to bpf_perf_event_output, oldest first
    socks5_sessions, \* the hash map socks5_sessions: session_key -> event
    frames           \* number of frames the classifier has seen

engineVars == <<authSessions, packetBuffer, lastAuthReport, now, reports,
                delivered, created, packets, threads>>
kernelVars == <<socks5_events, socks5_sessions, frames>>

vars == <<authSessions, packetBuffer, lastAuthReport, now, reports,
          delivered, created, last, packets, threads,
          socks5_events, socks5_sessions, frames>>

-----------------------------------------------------------------------------
(* Bounds and program constants *)

MaxPackets == 2
MaxMinutes == 6
TicksPerMinute == 1
MaxBufferSize == 4096

Minute == TicksPerMinute
Cooldown == 1 * Minute
Retention == 5 * Minute
MaxTime == MaxMinutes * Minute
\* time.Time{} and the saturated result of Sub/Since on it (about 292 years)
ZeroTime == -1
MaxDuration == 292 * 365 * 24 * 60 * Minute

-----------------------------------------------------------------------------
(* Go slices and strings *)

At(data, i) == data[i + 1]
Slice(data, a, b) == SubSeq(data, a + 1, b)
Min(a, b) == IF a < b THEN a ELSE b

\* fmt.Sprintf("%d", n) for a byte, as ASCII
DecBytes(n) ==
    IF n < 10 THEN <<48 + n>>
    ELSE IF n < 100 THEN <<48 + (n \div 10), 48 + (n % 10)>>
    ELSE <<48 + (n \div 100), 48 + ((n \div 10) % 10), 48 + (n % 10)>>

\* fmt.Sprintf("%d.%d.%d.%d", a, b, c, d)
DottedQuad(a, b, c, d) ==
    DecBytes(a) \o <<46>> \o DecBytes(b) \o <<46>> \o DecBytes(c) \o <<46>> \o DecBytes(d)

\* the literal "IPv6地址" as UTF-8
IPv6Literal == <<73, 80, 118, 54, 229, 156, 176, 229, 157, 128>>

\* now.Sub(t) / time.Since(t): saturates for the zero time
Since(t) == IF t = ZeroTime THEN MaxDuration ELSE now - t

-----------------------------------------------------------------------------
(* Session status strings *)

StConnecting == <<"connecting">>          \* "连接中"
StAuthenticated == <<"authenticated">>    \* "认证成功"
StExtracted == <<"extracted">>            \* "认证信息已提取"
StConnected == <<"connected">>            \* "连接成功"
StFailed(code) == <<"failed", code>>      \* "连接失败(错误码: %d)"

\* sessionKey := fmt.Sprintf("%s:%d->%s:%d", srcIP, srcPort, dstIP, dstPort)
sessionKey(f) == <<f.srcIP, f.srcPort, f.dstIP, f.dstPort>>

NewSession(key, proxyIP, proxyPort) ==
    [SessionID |-> key, ProxyIP |-> proxyIP, ProxyPort |-> proxyPort,
     Username |-> <<>>, Password |-> <<>>,
     TargetHost |-> <<>>, TargetPort |-> 0,
     AuthTime |-> ZeroTime, ConnectTime |-> ZeroTime,
     Status |-> StConnecting]

\* map insert / delete on a function whose domain is the set of present keys
Put(m, k, v) == [x \in (DOMAIN m) \cup {k} |-> IF x = k THEN v ELSE m[x]]
Del(m, k) == [x \in (DOMAIN m) \ {k} |-> m[x]]
EmptyMap == [x \in {} |-> 0]

-----------------------------------------------------------------------------
(* Stage classification *)

SocksPorts == {1080, 1081, 7890, 7891, 8080, 8081, 9050, 9051}

\* as isSOCKS5Traffic, every fragment let through
isSOCKS5TrafficLax(data, dstPort) ==
    \/ dstPort \in SocksPorts
    \/ Len(data) >= 0

isSOCKS5Traffic(data, dstPort) ==
    \/ dstPort \in SocksPorts
    \/ (Len(data) >= 2 /\ At(data, 0) = 5)
    \/ (Len(data) >= 1 /\ At(data, 0) = 1)

isAuthNegotiation(data) == Len(data) >= 3 /\ At(data, 0) = 5 /\ At(data, 1) >= 1
isUsernamePasswordAuth(data) == Len(data) >= 3 /\ At(data, 0) = 1
isConnectRequest(data) == Len(data) >= 4 /\ At(data, 0) = 5 /\ At(data, 1) = 1
isConnectResponse(data) == Len(data) >= 4 /\ At(data, 0) = 5 /\ At(data, 1) = 0

\* the case of the switch in analyzeSOCKS5Protocol that a window selects
Stage(data) ==
    IF isAuthNegotiation(data) THEN "authNegotiation"
    ELSE IF isUsernamePasswordAuth(data) THEN "usernamePasswordAuth"
    ELSE IF isConnectRequest(data) THEN "connectRequest"
    ELSE IF isConnectResponse(data) THEN "connectResponse"
    ELSE "search"

-----------------------------------------------------------------------------
(* Buffer accumulation *)

\* as Truncate, keeping the newest bytes instead of the oldest
TruncateSliding(buf) ==
    IF Len(buf) > MaxBufferSize THEN Slice(buf, Len(buf) - MaxBufferSize, Len(buf)) ELSE buf

\* the cap applied at the end of accumulatePacket
Truncate(buf) == IF Len(buf) > MaxBufferSize THEN Slice(buf, 0, MaxBufferSize) ELSE buf

\* as accumulatePacket, the fragment put in front of the buffered bytes
accumulatePacketPrepend(m, key, data) ==
    Put(m, key, Truncate(IF key \in DOMAIN m THEN data \o m[key] ELSE data))

accumulatePacket(m, key, data) ==
    Put(m, key, Truncate(IF key \in DOMAIN m THEN m[key] \o data ELSE data))

-----------------------------------------------------------------------------
(* Stage handlers.  Each yields the Session as the handler leaves it and     *)
(* whether it ends by calling printSOCKS5AuthReport on that Session.         *)

Quiet(s) == [sess |-> s, report |-> FALSE]
Report(s) == [sess |-> s, report |-> TRUE]

\* only logs the offered methods
handleAuthNegotiation(s, data) == Quiet(s)

\* as handleUsernamePasswordAuth, the password taken one byte early
handleUsernamePasswordAuthEarly(s, data) ==
    IF Len(data) < 3 THEN Quiet(s)
    ELSE IF At(data, 0) # 1 THEN Quiet(s)
    ELSE LET usernameLen == At(data, 1) IN
         IF Len(data) < 2 + usernameLen + 1 THEN Quiet(s)
         ELSE LET username == Slice(data, 2, 2 + usernameLen)
                  passwordLen == At(data, 2 + usernameLen)
              IN  IF Len(data) < 2 + usernameLen + 1 + passwordLen THEN Quiet(s)
                  ELSE LET password == Slice(data, 2 + usernameLen,
                                             2 + usernameLen + passwordLen)
                       IN  Report([s EXCEPT !.Username = username,
                                            !.Password = password,
                                            !.AuthTime = now,
                                            !.Status = StAuthenticated])

handleUsernamePasswordAuth(s, data) ==
    IF Len(data) < 3 THEN Quiet(s)
    ELSE IF At(data, 0) # 1 THEN Quiet(s)
    ELSE LET usernameLen == At(data, 1) IN
         IF Len(data) < 2 + usernameLen + 1 THEN Quiet(s)
         ELSE LET username == Slice(data, 2, 2 + usernameLen)
                  passwordLen == At(data, 2 + usernameLen)
              IN  IF Len(data) < 2 + usernameLen + 1 + passwordLen THEN Quiet(s)
                  ELSE LET password == Slice(data, 2 + usernameLen + 1,
                                             2 + usernameLen + 1 + passwordLen)
                       IN  Report([s EXCEPT !.Username = username,
                                            !.Password = password,
                                            !.AuthTime = now,
                                            !.Status = StAuthenticated])

\* the (targetHost, targetPort) locals at the end of the switch on atyp
ConnectTarget(data) ==
    LET atyp == At(data, 3)
        none == [host |-> <<>>, port |-> 0]
    IN  IF atyp = 1 THEN
            IF Len(data) >= 10
            THEN [host |-> DottedQuad(At(data, 4), At(data, 5), At(data, 6), At(data, 7)),
                  port |-> (At(data, 8) * 256 + At(data, 9)) % 65536]
            ELSE none
        ELSE IF atyp = 3 THEN
            IF Len(data) >= 5 /\ Len(data) >= 5 + At(data, 4) + 2
            THEN LET domainLen == At(data, 4) IN
                 [host |-> Slice(data, 5, 5 + domainLen),
                  port |-> (At(data, 5 + domainLen) * 256 + At(data, 5 + domainLen + 1)) % 65536]
            ELSE none
        ELSE IF atyp = 4 THEN [host |-> IPv6Literal, port |-> 0]
        ELSE none

handleConnectRequest(s, data) ==
    IF Len(data) < 4 THEN Quiet(s)
    ELSE LET t == ConnectTarget(data) IN
         IF t.host # <<>>
         THEN LET s1 == [s EXCEPT !.TargetHost = t.host,
                                  !.TargetPort = t.port,
                                  !.ConnectTime = now]
              IN  IF s1.Username # <<>> THEN Report(s1) ELSE Quiet(s1)
         ELSE Quiet(s)

\* as handleConnectResponse, the test of the reply code inverted
handleConnectResponseInverted(s, data) ==
    IF Len(data) >= 2
    THEN IF At(data, 1) # 0
         THEN Quiet([s EXCEPT !.Status = StConnected])
         ELSE Quiet([s EXCEPT !.Status = StFailed(At(data, 1))])
    ELSE Quiet(s)

handleConnectResponse(s, data) ==
    IF Len(data) >= 2
    THEN IF At(data, 1) = 0
         THEN Quiet([s EXCEPT !.Status = StConnected])
         ELSE Quiet([s EXCEPT !.Status = StFailed(At(data, 1))])
    ELSE Quiet(s)

isPrintableString(str) ==
    /\ ~(Len(str) = 0 \/ Len(str) > 64)
    /\ \A j \in 1..Len(str) : ~(str[j] < 32 \/ str[j] > 126)

\* as AuthAt, a username of 64 bytes let through
AuthAtWide(data, i) ==
    /\ At(data, i) = 1
    /\ i + 1 < Len(data)
    /\ LET usernameLen == At(data, i + 1) IN
       /\ usernameLen > 0
       /\ usernameLen <= 64
       /\ i + 2 + usernameLen < Len(data)
       /\ i + 2 + usernameLen + 1 < Len(data)
       /\ LET passwordLen == At(data, i + 2 + usernameLen) IN
          /\ passwordLen > 0
          /\ passwordLen < 64
          /\ i + 2 + usernameLen + 1 + passwordLen <= Len(data)
          /\ isPrintableString(Slice(data, i + 2, i + 2 + usernameLen))
          /\ isPrintableString(Slice(data, i + 2 + usernameLen + 1,
                                     i + 2 + usernameLen + 1 + passwordLen))

\* the nested conditions of the loop body of searchAuthInData at offset i
AuthAt(data, i) ==
    /\ At(data, i) = 1
    /\ i + 1 < Len(data)
    /\ LET usernameLen == At(data, i + 1) IN
       /\ usernameLen > 0
       /\ usernameLen < 64
       /\ i + 2 + usernameLen < Len(data)
       /\ i + 2 + usernameLen + 1 < Len(data)
       /\ LET passwordLen == At(data, i + 2 + usernameLen) IN
          /\ passwordLen > 0
          /\ passwordLen < 64
          /\ i + 2 + usernameLen + 1 + passwordLen <= Len(data)
          /\ isPrintableString(Slice(data, i + 2, i + 2 + usernameLen))
          /\ isPrintableString(Slice(data, i + 2 + usernameLen + 1,
                                     i + 2 + usernameLen + 1 + passwordLen))

\* offsets visited by "for i := 0; i < len(data)-3; i++" at which the body accepts
AuthOffsets(data) == {i \in 0..(Len(data) - 4) : AuthAt(data, i)}

searchAuthInData(s, data) ==
    IF s.Username # <<>> THEN Quiet(s)
    ELSE IF AuthOffsets(data) = {} THEN Quiet(s)
    ELSE LET i == CHOOSE x \in AuthOffsets(data) : \A y \in AuthOffsets(data) : x <= y
             usernameLen == At(data, i + 1)
             passwordLen == At(data, i + 2 + usernameLen)
         IN  Report([s EXCEPT !.Username = Slice(data, i + 2, i + 2 + usernameLen),
                              !.Password = Slice(data, i + 2 + usernameLen + 1,
                                                 i + 2 + usernameLen + 1 + passwordLen),
                              !.AuthTime = now,
                              !.Status = StExtracted])

\* the switch of analyzeSOCKS5Protocol
Dispatch(s, data) ==
    IF isAuthNegotiation(data) THEN handleAuthNegotiation(s, data)
    ELSE IF isUsernamePasswordAuth(data) THEN handleUsernamePasswordAuth(s, data)
    ELSE IF isConnectRequest(data) THEN handleConnectRequest(s, data)
    ELSE IF isConnectResponse(data) THEN handleConnectResponse(s, data)
    ELSE searchAuthInData(s, data)

getOrCreateSession(m, key, proxyIP, proxyPort) ==
    IF key \in DOMAIN m THEN m[key] ELSE NewSession(key, proxyIP, proxyPort)

-----------------------------------------------------------------------------
(* Reporting *)

\* as CooldownActive, the window one minute short
CooldownActiveShort == Since(lastAuthReport) < Cooldown - Minute

\* the early return of printSOCKS5AuthReport
CooldownActive == Since(lastAuthReport) < Cooldown

ReportOf(s) ==
    [time |-> now, key |-> s.SessionID, Username |-> s.Username,
     Password |-> s.Password, TargetHost |-> s.TargetHost,
     TargetPort |-> s.TargetPort, Status |-> s.Status, AuthTime |-> s.AuthTime]

\* as printSOCKS5AuthReport, lastAuthReport left as it was
printSOCKS5AuthReportUnstamped(s) ==
    IF CooldownActive
    THEN UNCHANGED <<lastAuthReport, reports>>
    ELSE /\ UNCHANGED lastAuthReport
         /\ reports' = Append(reports, ReportOf(s))

printSOCKS5AuthReport(s) ==
    IF CooldownActive
    THEN UNCHANGED <<lastAuthReport, reports>>
    ELSE /\ lastAuthReport' = now
         /\ reports' = Append(reports, ReportOf(s))

-----------------------------------------------------------------------------
(* Inputs: flows and payload fragments *)

\* a flow on a candidate proxy port and one on another port
FlowA == [srcIP |-> "10.0.0.1", srcPort |-> 40000, dstIP |-> "10.0.0.9", dstPort |-> 1080]
FlowB == [srcIP |-> "10.0.0.1", srcPort |-> 40001, dstIP |-> "10.0.0.9", dstPort |-> 443]
Flows == {FlowA, FlowB}

Fill(n, b) == [i \in 1..n |-> b]

\* VER=0x01 ULEN UNAME PLEN PASSWD
Frame(u, p) == <<1, Len(u)>> \o u \o <<Len(p)>> \o p

Bob == <<98, 111, 98>>
Xyz == <<120, 121, 122>>
Example == <<101, 120, 97, 109, 112, 108, 101>>

FrameBob == Frame(Bob, Xyz)
FrameMax == Frame(Fill(63, 117), Fill(63, 112))
FrameU64 == Frame(Fill(64, 117), <<120>>)
FrameP64 == Frame(<<98>>, Fill(64, 112))
FrameU0 == <<1, 0, 1, 120>>
FrameP0 == <<1, 1, 98, 0>>
FrameShortU == <<1, 3, 98>>
FrameShortP == <<1, 1, 98, 3, 120>>

Offer == <<5, 1, 2>>
Offer2 == <<5, 2, 0, 2>>
ConnectDomain == <<5, 1, 0, 3, 7>> \o Example \o <<1, 187>>
ConnectIPv4 == <<5, 1, 0, 1, 10, 0, 0, 7, 0, 80>>
ReplyOK == <<5, 0, 0, 1, 0, 0, 0, 0, 0, 0>>
ReplyFail == <<5, 5, 0, 1, 0, 0, 0, 0, 0, 0>>
Shifted == <<0>> \o FrameBob

-----------------------------------------------------------------------------
(* State after NewEnhancedSOCKS5Monitor *)

\* goroutines that use the monitor without synchronisation: two callers of
\* AnalyzePacket, each on its own flow, and the ticker loop that sweeps
Callers == {"a1", "a2"}
Reaper == "reaper"
FlowOf(t) == IF t = "a1" THEN FlowA ELSE FlowB
IdleCaller == [pc |-> "idle", data |-> <<>>, window |-> <<>>,
               sess |-> <<>>, detached |-> FALSE, cut |-> FALSE]
IdleReaper == [pc |-> "idle", todo |-> {}, key |-> <<>>]

Init ==
    /\ authSessions = EmptyMap
    /\ packetBuffer = EmptyMap
    /\ lastAuthReport = ZeroTime
    /\ now = 0
    /\ reports = <<>>
    /\ delivered = EmptyMap
    /\ created = EmptyMap
    /\ last = [op |-> "init"]
    /\ packets = 0
    /\ threads = [t \in Callers \cup {Reaper} |->
                     IF t = Reaper THEN IdleReaper ELSE IdleCaller]
    /\ socks5_events = <<>>
    /\ socks5_sessions = EmptyMap
    /\ frames = 0

-----------------------------------------------------------------------------
(* Operations, each call taken as one step *)

\* what a call did about the report: the history kept in last.outcome
Outcome(accepted, window, r) ==
    IF ~accepted THEN "rejected"
    ELSE IF Len(window) < 2 THEN "short"
    ELSE IF ~r.report THEN "quiet"
    ELSE IF CooldownActive THEN "suppressed" ELSE "emitted"

AnalyzePacket(f, data) ==
    LET key == sessionKey(f)
        accepted == isSOCKS5Traffic(data, f.dstPort)
        buf == accumulatePacket(packetBuffer, key, data)
        window == buf[key]
        session == getOrCreateSession(authSessions, key, f.dstIP, f.dstPort)
        r == Dispatch(session, window)
    IN
    /\ packets' = packets + 1
    /\ UNCHANGED <<now, threads>>
    /\ UNCHANGED kernelVars
    /\ last' = [op |-> "AnalyzePacket", key |-> key, data |-> data,
                fresh |-> key \notin DOMAIN packetBuffer,
                prior |-> IF key \in DOMAIN packetBuffer
                          THEN packetBuffer[key] ELSE <<>>,
                outcome |-> Outcome(accepted, window, r)]
    /\ IF ~accepted
       THEN UNCHANGED <<authSessions, packetBuffer, lastAuthReport, reports,
                        delivered, created>>
       ELSE /\ packetBuffer' = buf
            /\ delivered' = Put(delivered, key,
                                IF key \in DOMAIN delivered
                                THEN delivered[key] \o data ELSE data)
            /\ IF Len(window) < 2
               THEN UNCHANGED <<authSessions, lastAuthReport, reports, created>>
               ELSE /\ authSessions' = Put(authSessions, key, r.sess)
                    /\ created' = IF key \in DOMAIN created
                                  THEN created ELSE Put(created, key, now)
                    /\ IF r.report
                       THEN printSOCKS5AuthReport(r.sess)
                       ELSE UNCHANGED <<lastAuthReport, reports>>

\* the sessions the sweep of CleanupSessions deletes
Expired(m) == {k \in DOMAIN m : Since(m[k].AuthTime) > Retention}

CleanupSessions ==
    LET gone == Expired(authSessions) IN
    /\ authSessions' = [k \in (DOMAIN authSessions) \ gone |-> authSessions[k]]
    /\ packetBuffer' = [k \in (DOMAIN packetBuffer) \ gone |-> packetBuffer[k]]
    /\ delivered' = [k \in (DOMAIN delivered) \ gone |-> delivered[k]]
    /\ created' = [k \in (DOMAIN created) \ gone |-> created[k]]
    /\ UNCHANGED kernelVars
    /\ last' = [op |-> "CleanupSessions",
                removed |-> {[key |-> k, age |-> now - created[k],
                              AuthTime |-> authSessions[k].AuthTime] : k \in gone}]
    /\ UNCHANGED <<lastAuthReport, now, reports, packets, threads>>

\* the clock advances between calls
Tick ==
    /\ now < MaxTime
    /\ now' = now + 1
    /\ UNCHANGED kernelVars
    /\ last' = [op |-> "Tick"]
    /\ UNCHANGED <<authSessions, packetBuffer, lastAuthReport, reports,
                   delivered, created, packets, threads>>

\* fragments delivered while the clock runs
Fragments == {FrameBob, Offer, Shifted}

Next ==
    \/ /\ packets < MaxPackets
       /\ \E f \in Flows, data \in Fragments : AnalyzePacket(f, data)
    \/ CleanupSessions
    \/ Tick

Spec == Init /\ [][Next]_vars

-----------------------------------------------------------------------------
(* The protocol stages: every kind of window, the clock standing still *)

MaxProtoPackets == 3

ProtoFragments ==
    {FrameBob, FrameMax, FrameU64, FrameU0, FrameP0, FrameShortU, FrameShortP,
     Offer, ConnectDomain, ReplyOK, ReplyFail, Shifted}

NextProto ==
    \/ /\ packets < MaxProtoPackets
       /\ \E f \in Flows, data \in ProtoFragments : AnalyzePacket(f, data)
    \/ CleanupSessions

SpecProto == Init /\ [][NextProto]_vars

-----------------------------------------------------------------------------
(* The buffer at its cap: fragments large enough to fill it *)

MaxCapPackets == 3

\* filler without the 0x01 and 0x05 markers
Bulk(n) == [i \in 1..n |-> 40 + (i % 200)]

CapFragments == {Bulk(MaxBufferSize - 6), Bulk(MaxBufferSize + 1), FrameBob, Offer, <<7>>}

NextCap ==
    \/ /\ packets < MaxCapPackets
       /\ \E f \in Flows, data \in CapFragments : AnalyzePacket(f, data)
    \/ CleanupSessions

SpecCap == Init /\ [][NextCap]_vars

-----------------------------------------------------------------------------
(* One frame arriving in two pieces: every prefix and every suffix of a      *)
(* valid frame is a fragment                                                 *)

MaxSplitPackets == 2

Prefix(d, cut) == SubSeq(d, 1, cut)
Suffix(d, cut) == SubSeq(d, cut + 1, Len(d))
Cuts(d) == 1..(Len(d) - 1)

SplitFragments ==
    {Prefix(FrameBob, c) : c \in Cuts(FrameBob)} \cup
    {Suffix(FrameBob, c) : c \in Cuts(FrameBob)}

NextSplit ==
    \/ /\ packets < MaxSplitPackets
       /\ \E f \in Flows, data \in SplitFragments : AnalyzePacket(f, data)
    \/ CleanupSessions

SpecSplit == Init /\ [][NextSplit]_vars

-----------------------------------------------------------------------------
(* Duplicated delivery: the same frame fed again, on a new key or behind a   *)
(* frame that lost its tail, while the clock runs                            *)

MaxRepeatPackets == 3
MaxRepeatTicks == 2

\* ULEN=1 "b", PLEN=12 and a single password byte
FrameCut == <<1, 1, 98, 12, 120>>

RepeatFragments == {FrameBob, FrameCut}

NextRepeat ==
    \/ /\ packets < MaxRepeatPackets
       /\ \E f \in Flows, data \in RepeatFragments : AnalyzePacket(f, data)
    \/ /\ now < MaxRepeatTicks
       /\ Tick

SpecRepeat == Init /\ [][NextRepeat]_vars

-----------------------------------------------------------------------------
(* The same operations called from several goroutines.  The monitor has no  *)
(* lock, so calls interleave at each access to the maps, to a Session and to *)
(* lastAuthReport.  A caller that still holds a *SOCKS5Session the reaper    *)
(* has deleted from the map goes on working on that detached object.         *)

MaxConcPackets == 2
ConcFragments == {FrameBob, Offer}

\* positions of a caller after accumulatePacket and before its return
MidCall == {"window", "session", "handle", "check", "set"}
HoldsSession == {"handle", "check", "set"}

Goto(t, rec) == threads' = [threads EXCEPT ![t] = rec]

\* AnalyzePacket line 46: the traffic test
Enter(t, data) ==
    /\ threads[t].pc = "idle"
    /\ packets' = packets + 1
    /\ Goto(t, IF isSOCKS5Traffic(data, FlowOf(t).dstPort)
               THEN [IdleCaller EXCEPT !.pc = "accumulate", !.data = data]
               ELSE IdleCaller)
    /\ UNCHANGED kernelVars
    /\ last' = [op |-> "Enter", thread |-> t]
    /\ UNCHANGED <<authSessions, packetBuffer, lastAuthReport, now, reports,
                   delivered, created>>

\* AnalyzePacket line 53
Accumulate(t) ==
    LET key == sessionKey(FlowOf(t)) IN
    /\ threads[t].pc = "accumulate"
    /\ packetBuffer' = accumulatePacket(packetBuffer, key, threads[t].data)
    /\ delivered' = Put(delivered, key,
                        IF key \in DOMAIN delivered
                        THEN delivered[key] \o threads[t].data ELSE threads[t].data)
    /\ Goto(t, [threads[t] EXCEPT !.pc = "window"])
    /\ UNCHANGED kernelVars
    /\ last' = [op |-> "Accumulate", thread |-> t]
    /\ UNCHANGED <<authSessions, lastAuthReport, now, reports, created, packets>>

\* AnalyzePacket line 56: the argument m.packetBuffer[sessionKey] (nil when
\* the key is absent), and the length test of analyzeSOCKS5Protocol
ReadWindow(t) ==
    LET key == sessionKey(FlowOf(t))
        window == IF key \in DOMAIN packetBuffer THEN packetBuffer[key] ELSE <<>>
    IN
    /\ threads[t].pc = "window"
    /\ Goto(t, IF Len(window) < 2 THEN IdleCaller
               ELSE [threads[t] EXCEPT !.pc = "session", !.window = window])
    /\ UNCHANGED kernelVars
    /\ last' = [op |-> "ReadWindow", thread |-> t]
    /\ UNCHANGED <<authSessions, packetBuffer, lastAuthReport, now, reports,
                   delivered, created, packets>>

\* analyzeSOCKS5Protocol line 103
GetSession(t) ==
    LET f == FlowOf(t)
        key == sessionKey(f)
    IN
    /\ threads[t].pc = "session"
    /\ authSessions' = Put(authSessions, key,
                           getOrCreateSession(authSessions, key, f.dstIP, f.dstPort))
    /\ created' = IF key \in DOMAIN created THEN created ELSE Put(created, key, now)
    /\ Goto(t, [threads[t] EXCEPT !.pc = "handle", !.detached = FALSE])
    /\ UNCHANGED kernelVars
    /\ last' = [op |-> "GetSession", thread |-> t]
    /\ UNCHANGED <<packetBuffer, lastAuthReport, now, reports, delivered, packets>>

\* the Session a caller's pointer refers to
Referent(t) ==
    IF threads[t].detached THEN threads[t].sess
    ELSE authSessions[sessionKey(FlowOf(t))]

\* the switch of analyzeSOCKS5Protocol, up to the call of printSOCKS5AuthReport
Handle(t) ==
    LET key == sessionKey(FlowOf(t))
        r == Dispatch(Referent(t), threads[t].window)
    IN
    /\ threads[t].pc = "handle"
    /\ IF threads[t].detached
       THEN /\ Goto(t, IF r.report
                       THEN [threads[t] EXCEPT !.pc = "check", !.sess = r.sess]
                       ELSE IdleCaller)
            /\ UNCHANGED authSessions
       ELSE /\ Goto(t, IF r.report
                       THEN [threads[t] EXCEPT !.pc = "check"]
                       ELSE IdleCaller)
            /\ authSessions' = Put(authSessions, key, r.sess)
    /\ UNCHANGED kernelVars
    /\ last' = [op |-> "Handle", thread |-> t]
    /\ UNCHANGED <<packetBuffer, lastAuthReport, now, reports, delivered,
                   created, packets>>

\* printSOCKS5AuthReport line 341
CheckCooldown(t) ==
    /\ threads[t].pc = "check"
    /\ Goto(t, IF CooldownActive THEN IdleCaller ELSE [threads[t] EXCEPT !.pc = "set"])
    /\ UNCHANGED kernelVars
    /\ last' = [op |-> "CheckCooldown", thread |-> t]
    /\ UNCHANGED <<authSessions, packetBuffer, lastAuthReport, now, reports,
                   delivered, created, packets>>

\* printSOCKS5AuthReport lines 344-364
SetAndPrint(t) ==
    /\ threads[t].pc = "set"
    /\ lastAuthReport' = now
    /\ reports' = Append(reports, ReportOf(Referent(t)))
    /\ Goto(t, IdleCaller)
    /\ UNCHANGED kernelVars
    /\ last' = [op |-> "SetAndPrint", thread |-> t]
    /\ UNCHANGED <<authSessions, packetBuffer, now, delivered, created, packets>>

\* CleanupSessions line 370: the range over m.authSessions begins
StartSweep ==
    /\ threads[Reaper].pc = "idle"
    /\ Goto(Reaper, [pc |-> "sweep", todo |-> DOMAIN authSessions, key |-> <<>>])
    /\ UNCHANGED kernelVars
    /\ last' = [op |-> "StartSweep", thread |-> Reaper]
    /\ UNCHANGED <<authSessions, packetBuffer, lastAuthReport, now, reports,
                   delivered, created, packets>>

\* CleanupSessions lines 370-373: one iteration, up to delete(m.authSessions, k)
Visit ==
    /\ threads[Reaper].pc = "sweep"
    /\ IF threads[Reaper].todo = {}
       THEN /\ Goto(Reaper, IdleReaper)
            /\ UNCHANGED <<authSessions, created>>
       ELSE \E k \in threads[Reaper].todo :
                LET rest == threads[Reaper].todo \ {k} IN
                IF k \in Expired(authSessions)
                THEN /\ authSessions' = Del(authSessions, k)
                     /\ created' = Del(created, k)
                     /\ threads' =
                          [t \in DOMAIN threads |->
                             IF t = Reaper
                             THEN [pc |-> "delbuf", todo |-> rest, key |-> k]
                             ELSE IF sessionKey(FlowOf(t)) = k /\ threads[t].pc \in MidCall
                             THEN IF threads[t].pc \in HoldsSession /\ ~threads[t].detached
                                  THEN [threads[t] EXCEPT !.cut = TRUE, !.detached = TRUE,
                                                          !.sess = authSessions[k]]
                                  ELSE [threads[t] EXCEPT !.cut = TRUE]
                             ELSE threads[t]]
                ELSE /\ Goto(Reaper, [threads[Reaper] EXCEPT !.todo = rest])
                     /\ UNCHANGED <<authSessions, created>>
    /\ UNCHANGED kernelVars
    /\ last' = [op |-> "Visit", thread |-> Reaper]
    /\ UNCHANGED <<packetBuffer, lastAuthReport, now, reports, delivered, packets>>

\* CleanupSessions line 374: delete(m.packetBuffer, k)
DeleteBuffer ==
    LET k == threads[Reaper].key IN
    /\ threads[Reaper].pc = "delbuf"
    /\ packetBuffer' = Del(packetBuffer, k)
    /\ delivered' = Del(delivered, k)
    /\ threads' =
         [t \in DOMAIN threads |->
            IF t = Reaper
            THEN [threads[Reaper] EXCEPT !.pc = "sweep", !.key = <<>>]
            ELSE IF sessionKey(FlowOf(t)) = k /\ threads[t].pc \in MidCall
            THEN [threads[t] EXCEPT !.cut = TRUE]
            ELSE threads[t]]
    /\ UNCHANGED kernelVars
    /\ last' = [op |-> "DeleteBuffer", thread |-> Reaper]
    /\ UNCHANGED <<authSessions, lastAuthReport, now, reports, created, packets>>

NextConc ==
    \/ \E t \in Callers :
         \/ /\ packets < MaxConcPackets
            /\ \E data \in ConcFragments : Enter(t, data)
         \/ Accumulate(t)
         \/ ReadWindow(t)
         \/ GetSession(t)
         \/ Handle(t)
         \/ CheckCooldown(t)
         \/ SetAndPrint(t)
    \/ StartSweep
    \/ Visit
    \/ DeleteBuffer

SpecConc == Init /\ [][NextConc]_vars

-----------------------------------------------------------------------------
(* The frame classifier container_traffic_monitor.  A frame is the byte     *)
(* sequence between skb->data and skb->data_end; offsets count from          *)
(* skb->data, so data_end is Len(skb).                                       *)

\* sizeof(struct ethhdr), sizeof(struct iphdr), sizeof(struct tcphdr)
EthHdrLen == 14
IpHdrLen == 20
TcpHdrLen == 20
ETH_P_IP == 2048
IPPROTO_TCP == 6
\* sizeof the username and password arrays of struct socks5_auth_event
FieldSize == 64

\* bpf_ntohs of the 16-bit field at offset off
Ntohs(skb, off) == At(skb, off) * 256 + At(skb, off + 1)
\* bpf_ntohl of the 32-bit field at offset off, as its high and low 16 bits
Ntohl(skb, off) == <<Ntohs(skb, off), Ntohs(skb, off + 2)>>

\* struct iphdr *ip = (void *)(eth + 1)
IpOff == EthHdrLen
\* struct tcphdr *tcp = (void *)ip + (ip->ihl * 4)
TcpOff(skb) == IpOff + (At(skb, IpOff) % 16) * 4
\* void *payload = (void *)tcp + (tcp->doff * 4)
PayloadOff(skb) == TcpOff(skb) + (At(skb, TcpOff(skb) + 12) \div 16) * 4
payload_len(skb) == Len(skb) - PayloadOff(skb)
dst_port(skb) == Ntohs(skb, TcpOff(skb) + 2)

PortMatches(port) ==
    ~(port # 1080 /\ port # 1081 /\ port # 7890 /\
      port # 7891 /\ port # 8080 /\ port # 8081)

\* the early returns ahead of the protocol analysis, in program order
Classify(skb) ==
    IF EthHdrLen > Len(skb) THEN "truncated"
    ELSE IF Ntohs(skb, 12) # ETH_P_IP THEN "not-IP"
    ELSE IF IpOff + IpHdrLen > Len(skb) THEN "truncated"
    ELSE IF At(skb, IpOff + 9) # IPPROTO_TCP THEN "not-TCP"
    ELSE IF TcpOff(skb) + TcpHdrLen > Len(skb) THEN "truncated"
    ELSE IF ~PortMatches(dst_port(skb)) THEN "not-matching-port"
    ELSE IF PayloadOff(skb) >= Len(skb) THEN "no-payload"
    ELSE IF payload_len(skb) < 3 THEN "short-payload"
    ELSE "matching-payload"

\* data_ptr[i]
DataPtr(skb, i) == At(skb, PayloadOff(skb) + i)
username_len(skb) == DataPtr(skb, 1)
password_len(skb) == DataPtr(skb, 2 + username_len(skb))

\* as HasAuthFrame, the lengths checked against the payload only
HasAuthFrameUnbounded(skb) ==
    /\ payload_len(skb) >= 3
    /\ DataPtr(skb, 0) = 1
    /\ payload_len(skb) >= 2 + username_len(skb) + 1
    /\ payload_len(skb) >= 2 + username_len(skb) + 1 + password_len(skb)

\* the three nested conditions around the construction of the event
HasAuthFrame(skb) ==
    /\ payload_len(skb) >= 3
    /\ DataPtr(skb, 0) = 1
    /\ username_len(skb) > 0
    /\ username_len(skb) < 64
    /\ payload_len(skb) >= 2 + username_len(skb) + 1
    /\ password_len(skb) > 0
    /\ password_len(skb) < 64
    /\ payload_len(skb) >= 2 + username_len(skb) + 1 + password_len(skb)

\* the value of i when "for (i = 0; i < n && i < 63; i++)" ends: at its
\* condition or at the break on &data_ptr[from + i + 1] > data_end
CopyCount(skb, from, n) ==
    LET src == PayloadOff(skb) + from
        stops == {i \in 0..(FieldSize - 1) :
                     \/ ~(i < n /\ i < FieldSize - 1)
                     \/ src + i + 1 > Len(skb)}
    IN  CHOOSE i \in stops : \A j \in stops : i <= j

\* as CopyField, the source read one byte early
CopyFieldEarly(skb, from, n) ==
    LET i == CopyCount(skb, from, n)
        src == PayloadOff(skb) + from
    IN  [j \in 1..FieldSize |-> IF j - 1 < i THEN At(skb, src + j - 2) ELSE 0]

\* a field of the zero-initialised event after its copy loop and the '\0'
\* stored at the final i
CopyField(skb, from, n) ==
    LET i == CopyCount(skb, from, n)
        src == PayloadOff(skb) + from
    IN  [j \in 1..FieldSize |-> IF j - 1 < i THEN At(skb, src + j - 1) ELSE 0]

\* struct socks5_auth_event as filled in; pid and timestamp come from the
\* kernel helpers
Event(skb, pid, ktime) ==
    [pid |-> pid,
     src_ip |-> Ntohl(skb, IpOff + 12),
     dst_ip |-> Ntohl(skb, IpOff + 16),
     src_port |-> Ntohs(skb, TcpOff(skb)),
     dst_port |-> dst_port(skb),
     username |-> CopyField(skb, 2, username_len(skb)),
     password |-> CopyField(skb, 2 + username_len(skb) + 1, password_len(skb)),
     username_len |-> username_len(skb),
     password_len |-> password_len(skb),
     timestamp |-> ktime]

\* (src_ip << 32) | (src_port << 16) | dst_port, as the four 16-bit parts of
\* the 64-bit key, most significant first
session_key(event) ==
    <<event.src_ip[1], event.src_ip[2], event.src_port, event.dst_port>>

\* one run of the program on one frame; bpf_perf_event_output and
\* bpf_map_update_elem are taken at the call, the return value is ignored
container_traffic_monitor(desc, skb, pid) ==
    LET event == Event(skb, pid, frames) IN
    /\ frames' = frames + 1
    /\ IF Classify(skb) = "matching-payload" /\ HasAuthFrame(skb)
       THEN /\ socks5_events' = Append(socks5_events, event)
            /\ socks5_sessions' = Put(socks5_sessions, session_key(event), event)
       ELSE UNCHANGED <<socks5_events, socks5_sessions>>
    /\ last' = [op |-> "container_traffic_monitor", desc |-> desc, skb |-> skb,
                events |-> Len(socks5_events), sessions |-> socks5_sessions]
    /\ UNCHANGED engineVars

-----------------------------------------------------------------------------
(* Frames for the classifier, built from a description of their layers *)

MaxFrames == 2

\* proto: EtherType; ihl, doff: header lengths in words; cut: 0 for the whole
\* frame, else the number of leading bytes that arrived
Desc(proto, ihl, protocol, src, sport, dport, doff, payload, cut) ==
    [proto |-> proto, ihl |-> ihl, protocol |-> protocol, src |-> src,
     dst |-> <<10, 0, 0, 9>>, sport |-> sport, dport |-> dport, doff |-> doff,
     payload |-> payload, cut |-> cut]

EthBytes(d) == Fill(12, 2) \o <<d.proto \div 256, d.proto % 256>>
IpBytes(d) ==
    <<64 + d.ihl, 0, 0, 0, 0, 0, 64, 0, 64, d.protocol, 0, 0>> \o d.src \o d.dst
    \o Fill((d.ihl - 5) * 4, 1)
TcpBytes(d) ==
    <<d.sport \div 256, d.sport % 256, d.dport \div 256, d.dport % 256,
      0, 0, 0, 1, 0, 0, 0, 1, d.doff * 16, 24, 1, 0, 0, 0, 0, 0>>
    \o Fill((d.doff - 5) * 4, 1)
HeaderBytes(d) == EthBytes(d) \o IpBytes(d) \o TcpBytes(d)

SkbOf(d) ==
    IF d.cut = 0 THEN HeaderBytes(d) \o d.payload
    ELSE SubSeq(HeaderBytes(d), 1, d.cut)

Host1 == <<10, 0, 0, 1>>
Host2 == <<10, 0, 0, 2>>

\* a whole IPv4 TCP frame from Host1 with plain headers
Plain(dport, payload) ==
    Desc(ETH_P_IP, 5, IPPROTO_TCP, Host1, 40000, dport, 5, payload, 0)

\* 0x01 with ULEN=1 and PLEN=1 whose bytes are NUL and 0xff
FrameRaw == Frame(<<0>>, <<255>>)

Payloads ==
    {FrameBob, FrameMax, FrameRaw, FrameBob \o <<9, 9>>,
     FrameU64, FrameP64, FrameU0, FrameP0, FrameShortU, FrameShortP,
     Offer, Shifted, <<1, 1>>, <<1>>, <<>>}

Descs ==
    {Plain(1080, p) : p \in Payloads} \cup
    {Plain(port, FrameBob) : port \in {1081, 7890, 7891, 8080, 8081, 443, 9050}} \cup
    {Desc(ETH_P_IP, ihl, IPPROTO_TCP, Host2, 40001, 8081, doff, p, 0) :
        ihl \in {6}, doff \in {5, 8}, p \in {FrameBob, FrameU0}} \cup
    {Desc(ETH_P_IP, 5, IPPROTO_TCP, Host1, 40000, 1080, 8, FrameMax, 0),
     \* EtherType 0x86dd (IPv6), and IP protocol 17 (UDP)
     Desc(34525, 5, IPPROTO_TCP, Host1, 40000, 1080, 5, FrameBob, 0),
     Desc(ETH_P_IP, 5, 17, Host1, 40000, 1080, 5, FrameBob, 0)} \cup
    \* segments that declare a data offset of 0 words: a bare header whose
    \* source port begins with 0x01, and one with a frame behind the header
    {Desc(ETH_P_IP, 5, IPPROTO_TCP, Host1, 261, 1080, 0, <<>>, 0),
     Desc(ETH_P_IP, 5, IPPROTO_TCP, Host1, 40000, 1080, 0, FrameBob, 0)} \cup
    \* the same client address and ports towards a second proxy address
    {[Plain(1080, Frame(Xyz, Bob)) EXCEPT !.dst = <<10, 0, 0, 8>>]} \cup
    {Desc(ETH_P_IP, 5, IPPROTO_TCP, Host1, 40000, 1080, 5, FrameBob, cut) :
        cut \in {1, EthHdrLen - 1, EthHdrLen, EthHdrLen + IpHdrLen - 1,
                 EthHdrLen + IpHdrLen, EthHdrLen + IpHdrLen + TcpHdrLen - 1}}

\* what bpf_get_current_pid_tgid() >> 32 may give
Pids == {0, 4242}

NextKernel ==
    /\ frames < MaxFrames
    /\ \E d \in Descs, pid \in Pids : container_traffic_monitor(d, SkbOf(d), pid)

SpecKernel == Init /\ [][NextKernel]_vars

-----------------------------------------------------------------------------
(* The byte indices each handler reads from its window, and the classifier  *)
(* from its frame, in program order: an index enters the set only behind    *)
(* the conditions the code puts in front of the read.  A slice data[a:b]    *)
(* reads a..b-1.                                                             *)

ReadsAuthNegotiation(data) ==
    IF Len(data) >= 3
    THEN {1} \cup {2 + i : i \in {i \in 0..254 : i < At(data, 1) /\ i + 2 < Len(data)}}
    ELSE {}

ReadsUsernamePasswordAuth(data) ==
    IF Len(data) < 3 THEN {}
    ELSE IF At(data, 0) # 1 THEN {0}
    ELSE LET usernameLen == At(data, 1) IN
         IF Len(data) < 2 + usernameLen + 1 THEN {0, 1}
         ELSE LET passwordLen == At(data, 2 + usernameLen) IN
              {0, 1} \cup (2..(2 + usernameLen - 1)) \cup {2 + usernameLen} \cup
              (IF Len(data) < 2 + usernameLen + 1 + passwordLen THEN {}
               ELSE (2 + usernameLen + 1)..(2 + usernameLen + passwordLen))

\* as ReadsConnectRequest, the IPv4 branch guarded for the address only
ReadsConnectRequestShort(data) ==
    IF Len(data) < 4 THEN {}
    ELSE {1, 3} \cup
         (IF At(data, 3) = 1
          THEN IF Len(data) >= 8 THEN 4..9 ELSE {}
          ELSE IF At(data, 3) = 3
          THEN IF Len(data) >= 5
               THEN {4} \cup (IF Len(data) >= 5 + At(data, 4) + 2
                              THEN 5..(5 + At(data, 4) + 1) ELSE {})
               ELSE {}
          ELSE {})

ReadsConnectRequest(data) ==
    IF Len(data) < 4 THEN {}
    ELSE {1, 3} \cup
         (IF At(data, 3) = 1
          THEN IF Len(data) >= 10 THEN 4..9 ELSE {}
          ELSE IF At(data, 3) = 3
          THEN IF Len(data) >= 5
               THEN {4} \cup (IF Len(data) >= 5 + At(data, 4) + 2
                              THEN 5..(5 + At(data, 4) + 1) ELSE {})
               ELSE {}
          ELSE {})

ReadsConnectResponse(data) == IF Len(data) >= 2 THEN {1} ELSE {}

\* the reads of one pass of the loop body of searchAuthInData at offset i
ReadsAuthAt(data, i) ==
    {i} \cup
    (IF At(data, i) = 1 /\ i + 1 < Len(data)
     THEN LET usernameLen == At(data, i + 1) IN
          {i + 1} \cup
          (IF usernameLen > 0 /\ usernameLen < 64 /\ i + 2 + usernameLen < Len(data)
           THEN ((i + 2)..(i + 2 + usernameLen - 1)) \cup
                (IF i + 2 + usernameLen + 1 < Len(data)
                 THEN LET passwordLen == At(data, i + 2 + usernameLen) IN
                      {i + 2 + usernameLen} \cup
                      (IF /\ passwordLen > 0 /\ passwordLen < 64
                          /\ i + 2 + usernameLen + 1 + passwordLen <= Len(data)
                       THEN (i + 2 + usernameLen + 1)..(i + 2 + usernameLen + passwordLen)
                       ELSE {})
                 ELSE {})
           ELSE {})
     ELSE {})

\* the loop runs from offset 0 and returns at the first offset it accepts
ReadsSearchAuthInData(s, data) ==
    IF s.Username # <<>> THEN {}
    ELSE UNION {ReadsAuthAt(data, i) :
                   i \in {i \in 0..(Len(data) - 4) :
                             \A j \in AuthOffsets(data) : i <= j}}

\* offsets from skb->data that container_traffic_monitor reads
ReadsClassifier(skb) ==
    IF EthHdrLen > Len(skb) THEN {}
    ELSE {12, 13} \cup
    (IF Ntohs(skb, 12) # ETH_P_IP \/ IpOff + IpHdrLen > Len(skb) THEN {}
     ELSE {IpOff + 9} \cup
     (IF At(skb, IpOff + 9) # IPPROTO_TCP THEN {}
      ELSE {IpOff} \cup
      (IF TcpOff(skb) + TcpHdrLen > Len(skb) THEN {}
       ELSE {TcpOff(skb) + 2, TcpOff(skb) + 3} \cup
       (IF ~PortMatches(dst_port(skb)) THEN {}
        ELSE {TcpOff(skb) + 12} \cup
        (IF PayloadOff(skb) >= Len(skb) \/ payload_len(skb) < 3 THEN {}
         ELSE LET p == PayloadOff(skb) IN
              {p} \cup
              (IF DataPtr(skb, 0) # 1 THEN {}
               ELSE {p + 1} \cup
               (IF ~(/\ username_len(skb) > 0 /\ username_len(skb) < 64
                     /\ payload_len(skb) >= 2 + username_len(skb) + 1) THEN {}
                ELSE {p + 2 + username_len(skb)} \cup
                (IF ~HasAuthFrame(skb) THEN {}
                 ELSE ((IpOff + 12)..(IpOff + 19)) \cup {TcpOff(skb), TcpOff(skb) + 1}
                      \cup {p + 2 + i :
                              i \in 0..(CopyCount(skb, 2, username_len(skb)) - 1)}
                      \cup {p + 2 + username_len(skb) + 1 + i :
                              i \in 0..(CopyCount(skb, 2 + username_len(skb) + 1,
                                                  password_len(skb)) - 1)}))))))))

\* indices of a 64-byte field the copy loop and the store of '\0' write
WritesField(skb, from, n) == 0..CopyCount(skb, from, n)

-----------------------------------------------------------------------------
(* The handlers and the classifier called one at a time on windows, Sessions *)
(* and frames of every shape                                                 *)

MaxUnitCalls == 1

Blank == NewSession(sessionKey(FlowA), FlowA.dstIP, FlowA.dstPort)
Known == [Blank EXCEPT !.Username = Bob, !.Password = Xyz,
                       !.AuthTime = 0, !.Status = StAuthenticated]
KnownTarget == [Known EXCEPT !.TargetHost = Example, !.TargetPort = 443]
UnitSessions == {Blank, Known, KnownTarget}

ConnectIPv6 == <<5, 1, 0, 4>> \o Fill(16, 32) \o <<1, 187>>

UnitWindows ==
    \* connect requests, whole and cut at every length from 3 bytes up
    {Prefix(r, c) : r \in {ConnectDomain, ConnectIPv4}, c \in 3..10} \cup
    {ConnectDomain, ConnectIPv6, Prefix(ConnectIPv6, 4), Prefix(ConnectIPv6, 12),
     <<5, 1, 0, 3, 0, 0, 80>>, <<5, 1, 0, 3, 200, 97, 98>>,
     <<5, 1, 0, 9, 1, 2, 3, 4, 5, 6>>} \cup
    \* username/password frames
    {FrameBob, FrameMax, FrameRaw, FrameBob \o <<9, 9>>, FrameU64, FrameP64,
     FrameU0, FrameP0, FrameShortU, FrameShortP, FrameCut, <<1, 255, 98>>,
     <<1, 1>>, <<1>>} \cup
    \* windows for the scan
    {Shifted, Shifted \o Frame(Xyz, Bob), <<0>> \o FrameRaw \o FrameBob,
     <<0, 1>> \o FrameBob, <<0>> \o Prefix(FrameBob, 8), <<0>> \o FrameU64,
     <<0>> \o FrameP64, <<0>> \o FrameMax, <<0>> \o Frame(Bob, <<120, 127>>),
     <<0>> \o Frame(<<31, 98>>, Xyz), <<0, 0, 0, 1>>, <<0, 1, 3>>,
     <<0, 1, 3, 98, 111, 98>>} \cup
    \* offers and replies
    {Offer, Offer2, <<5, 200, 0>>, ReplyOK, ReplyFail, <<5, 0>>, <<5>>, <<>>}

\* one call of a handler on Session s and window data, with result r
Called(name, s, data, r) ==
    /\ packets' = packets + 1
    /\ last' = [op |-> name, session |-> s, data |-> data,
                after |-> r.sess, report |-> r.report]
    /\ UNCHANGED <<authSessions, packetBuffer, lastAuthReport, now, reports,
                   delivered, created, threads>>
    /\ UNCHANGED kernelVars

CallHandler(s, data) ==
    \/ Called("handleAuthNegotiation", s, data, handleAuthNegotiation(s, data))
    \/ Called("handleUsernamePasswordAuth", s, data, handleUsernamePasswordAuth(s, data))
    \/ Called("handleConnectRequest", s, data, handleConnectRequest(s, data))
    \/ Called("handleConnectResponse", s, data, handleConnectResponse(s, data))
    \/ Called("searchAuthInData", s, data, searchAuthInData(s, data))

NextUnit ==
    /\ packets + frames < MaxUnitCalls
    /\ \/ \E s \in UnitSessions, data \in UnitWindows : CallHandler(s, data)
       \/ \E d \in Descs, pid \in Pids : container_traffic_monitor(d, SkbOf(d), pid)

SpecUnit == Init /\ [][NextUnit]_vars

-----------------------------------------------------------------------------
(* Properties *)

Analysed == last.op = "AnalyzePacket" /\ last.outcome \notin {"rejected"}
Window == packetBuffer[last.key]
HasSession == last.key \in DOMAIN authSessions
Sess == authSessions[last.key]

\* d is exactly 0x01 ULEN UNAME PLEN PASSWD with both lengths in 1..63
IsValidFrame(d) ==
    /\ Len(d) >= 5
    /\ d[1] = 1
    /\ d[2] \in 1..63
    /\ Len(d) >= d[2] + 3
    /\ d[d[2] + 3] \in 1..63
    /\ Len(d) = d[2] + d[d[2] + 3] + 3
FrameUser(d) == [i \in 1..d[2] |-> d[2 + i]]
FramePass(d) == [i \in 1..d[d[2] + 3] |-> d[d[2] + 3 + i]]

\* C1: when the first fragment of a connection key is a complete
\* username/password frame with ULEN and PLEN in 1..63, the Session of the key
\* is afterwards authenticated and holds exactly the declared username and
\* password bytes.
C1_FirstFrameAuthenticates ==
    (last.op = "AnalyzePacket" /\ last.fresh /\ IsValidFrame(last.data)) =>
        /\ HasSession
        /\ Sess.Status = StAuthenticated
        /\ Sess.Username = FrameUser(last.data)
        /\ Sess.Password = FramePass(last.data)

C1_Witness ==
    /\ last.op = "AnalyzePacket" /\ last.fresh
    /\ last.data = FrameMax
    /\ last.key = sessionKey(FlowB)
    /\ HasSession /\ Len(Sess.Username) = 63 /\ Len(Sess.Password) = 63

\* w starts with 0x01 and declares a ULEN or PLEN that is 0, is 64 or more,
\* or runs past the end of w
IsBadFrame(w) ==
    /\ Len(w) >= 1
    /\ w[1] = 1
    /\ \/ Len(w) < 2
       \/ w[2] = 0
       \/ w[2] >= 64
       \/ Len(w) < w[2] + 3
       \/ w[w[2] + 3] = 0
       \/ w[w[2] + 3] >= 64
       \/ Len(w) < w[2] + w[w[2] + 3] + 3

\* C2: for every buffered window that starts with 0x01 and declares a ULEN or
\* PLEN of 0, of 64 or more, or past the bytes available, AnalyzePacket leaves
\* the Session without username and password and with status connecting.
C2_BadFrameLeavesSessionEmpty ==
    (Analysed /\ IsBadFrame(Window) /\ HasSession) =>
        /\ Sess.Username = <<>>
        /\ Sess.Password = <<>>
        /\ Sess.Status = StConnecting

\* w is exactly 0x05 0x01 RSV 0x03 LEN domain port-hi port-lo
IsDomainConnect(w) ==
    /\ Len(w) >= 7
    /\ w[1] = 5 /\ w[2] = 1 /\ w[4] = 3
    /\ Len(w) = w[5] + 7

\* C3: when the analysed window is a complete connect request with ATYP 0x03,
\* the Session afterwards has the domain bytes as TargetHost and the big-endian
\* port as TargetPort.
C3_ConnectRequestSetsTarget ==
    (Analysed /\ IsDomainConnect(Window)) =>
        /\ HasSession
        /\ Sess.TargetHost = [i \in 1..Window[5] |-> Window[5 + i]]
        /\ Sess.TargetPort = Window[Window[5] + 6] * 256 + Window[Window[5] + 7]

\* w is a complete reply 0x05 REP 0x00 0x01 with a 4-byte address and a port
IsReply(w) == Len(w) = 10 /\ w[1] = 5 /\ w[3] = 0 /\ w[4] = 1

\* C4: when the analysed window starts with 0x05 followed by a reply code, the
\* Session status is afterwards connected for code 0x00 and failed(code) for
\* any other code.  Stated for complete replies, the narrowest reading.
C4_ReplySetsStatus ==
    (Analysed /\ IsReply(Window)) =>
        /\ HasSession
        /\ Sess.Status = IF Window[2] = 0 THEN StConnected ELSE StFailed(Window[2])

\* C5: a key that receives an auth-method offer, then a valid
\* username/password frame, then a complete connect request, each as its own
\* fragment, ends with the frame's credentials and the request's target.
C5_HandshakeAdvances ==
    \A fr \in {d \in ProtoFragments : IsValidFrame(d)} :
        (/\ Analysed
         /\ last.data = ConnectDomain
         /\ delivered[last.key] = Offer \o fr \o ConnectDomain) =>
            /\ HasSession
            /\ Sess.Username = FrameUser(fr)
            /\ Sess.Password = FramePass(fr)
            /\ Sess.TargetHost = Example
            /\ Sess.TargetPort = 443

\* C6: the buffer of every key holds at most 4096 bytes, and they are the
\* first 4096 bytes delivered for the key since the buffer was created: at the
\* cap later bytes are dropped and the buffer does not slide.
C6_BufferIsCappedPrefix ==
    \A k \in DOMAIN packetBuffer :
        /\ Len(packetBuffer[k]) <= MaxBufferSize
        /\ Len(packetBuffer[k]) = Min(Len(delivered[k]), MaxBufferSize)
        /\ \A i \in 1..Len(packetBuffer[k]) : packetBuffer[k][i] = delivered[k][i]

C6_Witness ==
    /\ last.op = "AnalyzePacket"
    /\ last.data = FrameBob
    /\ Len(delivered[last.key]) = MaxBufferSize + 3
    /\ Len(packetBuffer[last.key]) = MaxBufferSize
    /\ SubSeq(packetBuffer[last.key], MaxBufferSize - 5, MaxBufferSize) = SubSeq(FrameBob, 1, 6)

EffectiveAge(authTime, age) == IF authTime # ZeroTime THEN now - authTime ELSE age

\* C10: after CleanupSessions every Session older than 5 minutes is gone with
\* its buffer, and every Session younger than 5 minutes, authenticated or not,
\* is still there with its buffer.
C10_CleanupKeepsYoungSessions ==
    last.op = "CleanupSessions" =>
        /\ \A k \in DOMAIN authSessions :
               EffectiveAge(authSessions[k].AuthTime, now - created[k]) <= Retention
        /\ \A r \in last.removed :
               /\ EffectiveAge(r.AuthTime, r.age) >= Retention
               /\ r.key \notin DOMAIN packetBuffer
        /\ \A k \in DOMAIN authSessions : k \in DOMAIN packetBuffer

\* C8: two AnalyzePacket calls for different sessions that both qualify for a
\* report inside one cooldown window emit at most one report: the cooldown
\* check and the update of lastAuthReport are one atomic step.
C8_CheckAndSetAtomic ==
    /\ \A i, j \in 1..Len(reports) :
           (i < j /\ reports[i].key # reports[j].key) =>
               reports[j].time - reports[i].time >= Cooldown
    /\ \A t, u \in Callers :
           (threads[t].pc = "set" /\ threads[u].pc = "set") => t = u

\* C9: the reaper never deletes the Session or the buffer of a key between the
\* steps of an AnalyzePacket call on that key, so no handler works on a Session
\* that is no longer in the store.
C9_ReaperExcludedDuringCall ==
    \A t \in Callers :
        /\ threads[t].pc \in MidCall => ~threads[t].cut
        /\ threads[t].pc \in HoldsSession =>
               /\ ~threads[t].detached
               /\ sessionKey(FlowOf(t)) \in DOMAIN authSessions

\* C11: in every state each Session has Username and Password either both
\* empty or both non-empty; no Session carries one credential without the
\* other.
C11_CredentialsPaired ==
    \A k \in DOMAIN authSessions :
        (authSessions[k].Username = <<>>) <=> (authSessions[k].Password = <<>>)

\* C12: every audit report printSOCKS5AuthReport emits is for a Session whose
\* Username and Password are both non-empty when it is emitted.
C12_ReportsCarryCredentials ==
    \A i \in 1..Len(reports) :
        reports[i].Username # <<>> /\ reports[i].Password # <<>>

\* C13: the keys that hold a packet buffer are the keys that hold a Session:
\* AnalyzePacket never creates a buffer without a Session, and after
\* CleanupSessions no buffer remains for a key that has no Session.
C13_BufferIffSession == DOMAIN packetBuffer = DOMAIN authSessions

\* the Session a call leaves behind is the stage handler's result on s
HandledFrom(s, key) ==
    /\ key \in DOMAIN authSessions'
    /\ authSessions'[key] = Dispatch(s, packetBuffer'[key]).sess

\* C14: the first fragment AnalyzePacket accumulates for a key without a
\* buffer creates the Session of the key, and the stage handler starts from
\* Status connecting, empty Username, Password and TargetHost and TargetPort 0;
\* a later fragment is handled on the Session the store already holds.
C14_FirstFragmentCreatesSession ==
    [][\A f \in Flows :
          LET key == sessionKey(f) IN
          (/\ last'.op = "AnalyzePacket"
           /\ last'.key = key
           /\ last'.outcome # "rejected") =>
              IF key \notin DOMAIN packetBuffer
              THEN HandledFrom(NewSession(key, f.dstIP, f.dstPort), key)
              ELSE key \in DOMAIN authSessions =>
                       HandledFrom(authSessions[key], key)]_vars

LifecycleStatuses ==
    {StConnecting, StAuthenticated, StConnected} \cup {StFailed(c) : c \in 1..255}

\* C15 as stated: the Status of every Session is one of connecting,
\* authenticated, connected and failed(code); no handler, the fallback scan
\* included, sets another one.
C15_StatusIsLifecycle ==
    \A k \in DOMAIN authSessions : authSessions[k].Status \in LifecycleStatuses

\* C15 amended: the Status of every Session is one of connecting,
\* authenticated, connected, failed(code) with a non-zero reply code, and
\* credentials-extracted, the status the fallback scan sets together with the
\* credentials it found.
C15_StatusIsOneOfFive ==
    \A k \in DOMAIN authSessions :
        /\ authSessions[k].Status \in LifecycleStatuses \cup {StExtracted}
        /\ authSessions[k].Status = StExtracted =>
               /\ authSessions[k].Username # <<>>
               /\ authSessions[k].Password # <<>>

C15_Witness ==
    /\ last.op = "AnalyzePacket"
    /\ last.data = Shifted
    /\ last.outcome = "emitted"
    /\ Sess.Status = StExtracted
    /\ Sess.Username = Bob
    /\ \E k \in DOMAIN authSessions : authSessions[k].Status = StConnected

\* reports emitted for key k at time t or later
ReportsSince(k, t) ==
    {i \in 1..Len(reports) : reports[i].key = k /\ reports[i].time >= t}

\* C16 as stated, for the credentials and whatever the key has buffered: when
\* a call has fed a complete valid frame and the next call feeds the same
\* frame on the same key, the Session has the same Username and Password
\* after the second call as after the first.
C16_RepeatedFrameKeepsCredentials ==
    [][(/\ last.op = "AnalyzePacket"
        /\ last.outcome # "rejected"
        /\ IsValidFrame(last.data)
        /\ last'.op = "AnalyzePacket"
        /\ last'.outcome # "rejected"
        /\ last'.key = last.key
        /\ last'.data = last.data) =>
           /\ last.key \in DOMAIN authSessions'
           /\ authSessions'[last.key].Username = authSessions[last.key].Username
           /\ authSessions'[last.key].Password = authSessions[last.key].Password]_vars

\* C16 amended: feeding the same complete valid frame twice in a row on a key
\* that had nothing buffered before the first feed leaves the Session with
\* the Username and Password of the frame, as after the first feed, and the
\* two feeds emit at most one report when they fall within one cooldown
\* window.
C16_RepeatedFrameIsIdempotent ==
    \A fr \in {d \in Fragments \cup ProtoFragments \cup RepeatFragments :
                    IsValidFrame(d)} :
        (/\ last.op = "AnalyzePacket"
         /\ last.outcome # "rejected"
         /\ last.data = fr
         /\ last.prior = fr) =>
            /\ HasSession
            /\ Sess.Status = StAuthenticated
            /\ Sess.Username = FrameUser(fr)
            /\ Sess.Password = FramePass(fr)
            /\ now - created[last.key] < Cooldown =>
                   Cardinality(ReportsSince(last.key, created[last.key])) <= 1

C16_Witness ==
    /\ last.op = "AnalyzePacket"
    /\ last.data = FrameBob
    /\ last.prior = FrameBob
    /\ last.outcome = "suppressed"
    /\ Window = FrameBob \o FrameBob
    /\ Sess.Username = Bob /\ Sess.Password = Xyz
    /\ Cardinality(ReportsSince(last.key, now)) = 1

\* C17: when a valid frame reaches AnalyzePacket for one key as two
\* consecutive fragments, split at any byte boundary and on any destination
\* port, the Session holds exactly the frame's username and password after
\* the second fragment.
C17_SplitFrameReassembles ==
    \A c \in Cuts(FrameBob) :
        (/\ last.op = "AnalyzePacket"
         /\ last.prior = Prefix(FrameBob, c)
         /\ last.data = Suffix(FrameBob, c)) =>
            /\ HasSession
            /\ Sess.Username = FrameUser(FrameBob)
            /\ Sess.Password = FramePass(FrameBob)

-----------------------------------------------------------------------------
(* Properties of the frame classifier, stated on the description of the     *)
(* frame it was given                                                        *)

Classified == last.op = "container_traffic_monitor"
\* events submitted by the last run
NewEvents == Len(socks5_events) - last.events
LastEvent == socks5_events[Len(socks5_events)]
\* keys of socks5_sessions the last run wrote
Touched ==
    {k \in DOMAIN socks5_sessions :
        k \notin DOMAIN last.sessions \/ last.sessions[k] # socks5_sessions[k]}

\* the candidate proxy ports of the classifier
CandidatePorts == {1080, 1081, 7890, 7891, 8080, 8081}

\* a whole frame with EtherType IPv4 and protocol TCP whose IP and TCP headers
\* declare at least their minimum length of 5 words
WholeIPv4TCP(d) ==
    /\ d.cut = 0
    /\ d.proto = ETH_P_IP /\ d.protocol = IPPROTO_TCP
    /\ d.ihl >= 5 /\ d.doff >= 5

\* p starts with a frame 0x01 ULEN UNAME PLEN PASSWD, both lengths in 1..63
CarriesValidFrame(p) ==
    /\ Len(p) >= 5
    /\ p[1] = 1
    /\ p[2] \in 1..63
    /\ Len(p) >= p[2] + 3
    /\ p[p[2] + 3] \in 1..63
    /\ Len(p) >= p[2] + p[p[2] + 3] + 3

\* bytes in a 64-byte field, the rest NUL
Padded(bytes) == bytes \o Fill(FieldSize - Len(bytes), 0)

\* C18: for every TCP payload on a filtered port that starts with 0x01 and
\* carries a frame with ULEN and PLEN in 1..63 within the payload, the
\* classifier emits exactly one event; its username_len and password_len are
\* the declared lengths, and its username and password fields hold exactly the
\* declared bytes in order, NUL in the rest of the 64 bytes.
C18_ValidFrameEmitsExactEvent ==
    (/\ Classified
     /\ WholeIPv4TCP(last.desc)
     /\ last.desc.dport \in CandidatePorts
     /\ CarriesValidFrame(last.desc.payload)) =>
        /\ NewEvents = 1
        /\ LastEvent.username_len = last.desc.payload[2]
        /\ LastEvent.password_len = last.desc.payload[last.desc.payload[2] + 3]
        /\ LastEvent.username = Padded(FrameUser(last.desc.payload))
        /\ LastEvent.password = Padded(FramePass(last.desc.payload))

C18_Witness ==
    /\ Classified
    /\ last.desc.payload = FrameMax
    /\ last.desc.doff = 8
    /\ last.events = 1
    /\ NewEvents = 1
    /\ LastEvent.username_len = 63
    /\ LastEvent.password = Padded(Fill(63, 112))
    /\ socks5_events[1].username = Padded(Bob)

\* C19: for every frame whose payload declares a ULEN or PLEN of 0 or of 64
\* and more, or is shorter than 2 + ULEN + 1 + PLEN, the classifier emits no
\* event and leaves the session cache alone; no event ever carries an empty
\* or out-of-range credential length.
C19_BadFrameEmitsNothing ==
    /\ (Classified /\ IsBadFrame(last.desc.payload)) =>
           /\ NewEvents = 0
           /\ socks5_sessions = last.sessions
    /\ \A i \in 1..Len(socks5_events) :
           /\ socks5_events[i].username_len \in 1..63
           /\ socks5_events[i].password_len \in 1..63

C19_Witness ==
    /\ Classified
    /\ last.desc = Plain(1080, FrameU0)
    /\ last.events = 1
    /\ NewEvents = 0
    /\ DOMAIN socks5_sessions # {}
    /\ socks5_sessions = last.sessions

\* C20: the classifier submits an event or writes the cache only for an IPv4
\* TCP frame with a destination port in the candidate set and at least 3
\* bytes of TCP payload behind its headers; for any frame it submits at most
\* one event and writes at most one cache entry, and it removes none.
C20_OnlyMatchingFramesAct ==
    Classified =>
        /\ NewEvents \in {0, 1}
        /\ Cardinality(Touched) <= 1
        /\ DOMAIN last.sessions \subseteq DOMAIN socks5_sessions
        /\ (NewEvents = 1 \/ Touched # {}) =>
               /\ WholeIPv4TCP(last.desc)
               /\ last.desc.dport \in CandidatePorts
               /\ Len(last.desc.payload) >= 3

-----------------------------------------------------------------------------
(* Properties of single handler calls *)

HandlerNames ==
    {"handleAuthNegotiation", "handleUsernamePasswordAuth", "handleConnectRequest",
     "handleConnectResponse", "searchAuthInData"}
HandlerCalled == last.op \in HandlerNames

\* the indices the last handler call read from its window
HandlerReads ==
    IF last.op = "handleAuthNegotiation" THEN ReadsAuthNegotiation(last.data)
    ELSE IF last.op = "handleUsernamePasswordAuth" THEN ReadsUsernamePasswordAuth(last.data)
    ELSE IF last.op = "handleConnectRequest" THEN ReadsConnectRequest(last.data)
    ELSE IF last.op = "handleConnectResponse" THEN ReadsConnectResponse(last.data)
    ELSE ReadsSearchAuthInData(last.session, last.data)

\* C21: for every frame given to the classifier and every window given to a
\* handler, each byte index read lies below the end of the data, and each
\* write into a 64-byte username or password field is at an index of at most
\* 63, whatever the length fields declare.
C21_ReadsAndWritesInBounds ==
    /\ HandlerCalled => \A i \in HandlerReads : 0 <= i /\ i < Len(last.data)
    /\ Classified =>
           /\ \A i \in ReadsClassifier(last.skb) : 0 <= i /\ i < Len(last.skb)
           /\ Classify(last.skb) = "matching-payload" /\ HasAuthFrame(last.skb) =>
                  /\ \A i \in WritesField(last.skb, 2, username_len(last.skb)) :
                         0 <= i /\ i <= FieldSize - 1
                  /\ \A i \in WritesField(last.skb, 2 + username_len(last.skb) + 1,
                                          password_len(last.skb)) :
                         0 <= i /\ i <= FieldSize - 1

C21_Witness ==
    /\ HandlerCalled
    /\ last.op = "searchAuthInData"
    /\ last.data = <<0>> \o FrameMax
    /\ HandlerReads = 0..(Len(last.data) - 1)
    /\ Len(last.after.Username) = 63

\* the window holds, from 0-based offset i, 0x01 ULEN UNAME PLEN PASSWD with
\* ULEN = u and PLEN = p, the whole frame inside the window and every byte of
\* UNAME and PASSWD in 32..126
FrameAtOffset(data, i, u, p) ==
    /\ i + 3 + u + p <= Len(data)
    /\ data[i + 1] = 1
    /\ data[i + 2] = u
    /\ data[i + 3 + u] = p
    /\ \A j \in 1..u : data[i + 2 + j] \in 32..126
    /\ \A j \in 1..p : data[i + 3 + u + j] \in 32..126

FrameOffsets(data) ==
    {i \in 0..Len(data) :
        \E u \in 1..63 :
            /\ i + 3 + u <= Len(data)
            /\ data[i + 1] = 1
            /\ data[i + 2] = u
            /\ \E p \in 1..63 : FrameAtOffset(data, i, u, p)}

LowestFrame(data) ==
    LET offsets == FrameOffsets(data)
        i == CHOOSE x \in offsets : \A y \in offsets : x <= y
        u == data[i + 2]
        p == data[i + 3 + u]
    IN  [user |-> [j \in 1..u |-> data[i + 2 + j]],
         pass |-> [j \in 1..p |-> data[i + 3 + u + j]]]

\* C22: searchAuthInData on a Session without credentials sets credentials
\* exactly when some offset of the window holds 0x01 followed by a frame with
\* ULEN and PLEN in 1..63, fully inside the window, with every username and
\* password byte in 32..126, and it stores the username and password of the
\* lowest such offset; on a Session that already has a username it changes
\* nothing.
C22_ScanFindsLowestFrame ==
    last.op = "searchAuthInData" =>
        IF last.session.Username = <<>>
        THEN /\ last.after.Username # <<>> <=> FrameOffsets(last.data) # {}
             /\ FrameOffsets(last.data) # {} =>
                    /\ last.after.Username = LowestFrame(last.data).user
                    /\ last.after.Password = LowestFrame(last.data).pass
             /\ FrameOffsets(last.data) = {} => last.after = last.session
        ELSE last.after = last.session /\ ~last.report

C22_Witness ==
    /\ last.op = "searchAuthInData"
    /\ last.session = Blank
    /\ last.data = Shifted \o Frame(Xyz, Bob)
    /\ FrameOffsets(last.data) = {1, 10}
    /\ last.after.Username = Bob
    /\ last.after.Password = Xyz

\* the classifier run on window data as the TCP payload of a plain frame to
\* port 1080
AsPayload(data) == SkbOf(Plain(1080, data))
Emits(skb) == Classify(skb) = "matching-payload" /\ HasAuthFrame(skb)

\* C23: on every payload that starts with 0x01 the direct-match extractor
\* handleUsernamePasswordAuth sets credentials exactly when the classifier
\* emits an event, both with the same username and password, and the
\* direct-match extractor accepts nothing that the length checks of the
\* fallback scan at offset 0 reject.
C23_ExtractorsAgree ==
    (/\ last.op = "handleUsernamePasswordAuth"
     /\ Len(last.data) >= 1
     /\ last.data[1] = 1) =>
        LET skb == AsPayload(last.data) IN
        /\ last.report <=> Emits(skb)
        /\ (last.report /\ Emits(skb)) =>
               /\ Padded(last.after.Username) = Event(skb, 0, 0).username
               /\ Padded(last.after.Password) = Event(skb, 0, 0).password
        /\ last.report =>
               /\ At(last.data, 1) > 0 /\ At(last.data, 1) < 64
               /\ At(last.data, 2 + At(last.data, 1)) > 0
               /\ At(last.data, 2 + At(last.data, 1)) < 64

\* the text of a 32-bit address held as two 16-bit parts
AddrText(ip) == DottedQuad(ip[1] \div 256, ip[1] % 256, ip[2] \div 256, ip[2] % 256)
\* the key AnalyzePacket derives for the flow of an event
EngineKey(e) ==
    sessionKey([srcIP |-> AddrText(e.src_ip), srcPort |-> e.src_port,
                dstIP |-> AddrText(e.dst_ip), dstPort |-> e.dst_port])
Events == {socks5_events[i] : i \in 1..Len(socks5_events)}

\* C24: the capture-side key is a function of (source IP, source port,
\* destination port) that sends different triples to different keys, and two
\* flows have the same capture-side key exactly when they have the same
\* AnalyzePacket session key.
C24_KeysAgree ==
    \A e1, e2 \in Events :
        /\ session_key(e1) = session_key(e2) <=>
               <<e1.src_ip, e1.src_port, e1.dst_port>> = <<e2.src_ip, e2.src_port, e2.dst_port>>
        /\ session_key(e1) = session_key(e2) <=> EngineKey(e1) = EngineKey(e2)

\* the window holds the whole address and port of its declared ATYP: 4 + 2
\* bytes for IPv4, the length byte, the domain and 2 bytes for a domain name,
\* 16 + 2 bytes for IPv6
HoldsTarget(data) ==
    /\ Len(data) >= 4
    /\ \/ data[4] = 1 /\ Len(data) >= 4 + 4 + 2
       \/ data[4] = 3 /\ Len(data) >= 5 /\ Len(data) >= 5 + data[5] + 2
       \/ data[4] = 4 /\ Len(data) >= 4 + 16 + 2

TargetOf(s) == <<s.TargetHost, s.TargetPort, s.ConnectTime>>

\* C25: handleConnectRequest sets the target only when the window holds the
\* whole address and port of the declared ATYP; on a truncated request
\* TargetHost and TargetPort stay as they were; Status is never changed; and
\* the report is made exactly when the target was set and the Session has a
\* username.
C25_TruncatedRequestSetsNothing ==
    last.op = "handleConnectRequest" =>
        /\ TargetOf(last.after) # TargetOf(last.session) => HoldsTarget(last.data)
        /\ ~HoldsTarget(last.data) =>
               /\ last.after.TargetHost = last.session.TargetHost
               /\ last.after.TargetPort = last.session.TargetPort
        /\ last.after.Status = last.session.Status
        /\ last.report <=>
               (TargetOf(last.after) # TargetOf(last.session) /\ last.after.Username # <<>>)

\* C26: once the buffer of a key holds at least 4 bytes, the stage that
\* analyzeSOCKS5Protocol selects for the buffer is the same after every later
\* fragment, for as long as CleanupSessions has not deleted the buffer.
C26_StageIsStable ==
    [][\A k \in DOMAIN packetBuffer :
          (Len(packetBuffer[k]) >= 4 /\ k \in DOMAIN packetBuffer') =>
              Stage(packetBuffer'[k]) = Stage(packetBuffer[k])]_vars

C26_Witness ==
    /\ Analysed
    /\ Len(last.prior) >= 4
    /\ Stage(last.prior) = "usernamePasswordAuth"
    /\ last.data = Offer
    /\ Window = last.prior \o last.data
    /\ Stage(Window) = "usernamePasswordAuth"

\* C27: once the Username of a Session is non-empty, its Username and Password
\* are the same after every later call of AnalyzePacket, for as long as the
\* Session stays in the store.
C27_CredentialsAreFinal ==
    [][\A k \in DOMAIN authSessions :
          (authSessions[k].Username # <<>> /\ k \in DOMAIN authSessions') =>
              /\ authSessions'[k].Username = authSessions[k].Username
              /\ authSessions'[k].Password = authSessions[k].Password]_vars

\* a second, different frame arrives for a Session that has credentials
C27_Witness ==
    /\ Analysed
    /\ last.prior = FrameBob
    /\ last.data = FrameMax
    /\ HasSession
    /\ Sess.Username = Bob
    /\ Sess.Password = Xyz

\* entries of map m under keys other than k are the same in map n
SameElsewhere(m, n, k) ==
    /\ (DOMAIN m) \ {k} = (DOMAIN n) \ {k}
    /\ \A j \in (DOMAIN m) \ {k} : n[j] = m[j]

\* neither a proxy port nor a first byte 0x05 (of at least 2) or 0x01
NotProxyTraffic(data, dstPort) ==
    /\ dstPort \notin {1080, 1081, 7890, 7891, 8080, 8081, 9050, 9051}
    /\ ~(Len(data) >= 2 /\ data[1] = 5)
    /\ ~(Len(data) >= 1 /\ data[1] = 1)

\* C28: a call of AnalyzePacket for key K leaves the Session and the buffer of
\* every other key as they were (only the Session of K, the buffer of K and
\* lastAuthReport may change), and a call whose fragment isSOCKS5Traffic
\* rejects changes no state at all.
C28_OtherKeysUntouched ==
    [][packets' # packets =>
          /\ last'.op = "AnalyzePacket"
          /\ SameElsewhere(authSessions, authSessions', last'.key)
          /\ SameElsewhere(packetBuffer, packetBuffer', last'.key)
          /\ NotProxyTraffic(last'.data, last'.key[4]) =>
                 UNCHANGED <<authSessions, packetBuffer, lastAuthReport, reports>>]_vars

\* a call for the second key while the first key has a Session and a buffer
C28_Witness ==
    /\ Analysed
    /\ last.key = sessionKey(FlowB)
    /\ last.fresh
    /\ HasSession
    /\ sessionKey(FlowA) \in DOMAIN authSessions
    /\ authSessions[sessionKey(FlowA)].Username = Bob
    /\ packetBuffer[sessionKey(FlowA)] = FrameBob

====
